---- MODULE Spec2Model ----
(***************************************************************************)
(* Model of src/src/modinv.rs: the fixed-width signed integer I320 (five   *)
(* limbs, least-significant first), its limb primitives, wide add/sub,     *)
(* signed ordering, and the binary extended-Euclidean modinv loop.         *)
(*                                                                         *)
(* The limb width is scaled down from 64 bits to LimbBits bits; every      *)
(* operation is computed limb by limb exactly as the source computes it,   *)
(* with the double-width accumulator (u128) scaled to 2*LimbBits bits.     *)
(***************************************************************************)
EXTENDS Integers, Sequences, FiniteSets, TLC

\* ---------------------------------------------------------------- bounds
LimbBits == 3          \* bits per limb (u64 in the source)
MaxMod == 47           \* small moduli 1, 3, .., MaxMod are enumerated with every a
NearTop == 12          \* how many values next to 0, m/2 and m are tried for a big modulus

\* ------------------------------------------------------------- constants
NumLimbs == 5

RECURSIVE Pow2(_)
Pow2(n) == IF n = 0 THEN 1 ELSE 2 * Pow2(n - 1)

Base == Pow2(LimbBits)              \* 2^64 in the source: one more than u64::MAX
Wide == Base * Base                 \* 2^128 in the source: one more than u128::MAX
TopBit == Pow2(LimbBits - 1)        \* 1 << 63
LimbMax == Base - 1                 \* 0xffffffffffffffff
TotalBits == NumLimbs * LimbBits    \* 320
Limbs == 0 .. LimbMax

\* ------------------------------------------------------- representation
\* I320 { d: [u64; 5] }: d[i] of the source is s[i + 1] here.
I320 == [1 .. NumLimbs -> Limbs]

\* I320::new(d4, d3, d2, d1, d0): arguments most-significant first,
\* stored least-significant first.
new(d4, d3, d2, d1, d0) == [i \in 1 .. NumLimbs |->
    CASE i = 1 -> d0 [] i = 2 -> d1 [] i = 3 -> d2 [] i = 4 -> d3 [] OTHER -> d4]

is_even(s) == s[1] % 2 = 0

is_zero(s) == \A i \in 1 .. NumLimbs : s[i] = 0

\* Variant of div2 that clears the top bit of limb 4 (a logical shift).
div2Logical(s) == [i \in 1 .. NumLimbs |->
    IF i < NumLimbs
    THEN ((s[i + 1] % 2) * TopBit) + (s[i] \div 2)
    ELSE s[NumLimbs] \div 2]

\* Variant of div2 that shifts every limb on its own.
div2NoCarry(s) == [i \in 1 .. NumLimbs |->
    IF i < NumLimbs
    THEN s[i] \div 2
    ELSE ((s[NumLimbs] \div TopBit) * TopBit) + (s[NumLimbs] \div 2)]

\* div2: one-bit right shift across the limbs; bit 0 of limb i+1 becomes the
\* top bit of limb i, and limb 4 keeps its own top bit (t = d[4] >> 63).
div2(s) == [i \in 1 .. NumLimbs |->
    IF i < NumLimbs
    THEN ((s[i + 1] % 2) * TopBit) + (s[i] \div 2)
    ELSE ((s[NumLimbs] \div TopBit) * TopBit) + (s[NumLimbs] \div 2)]

\* AddAssign<&I320>: limb-wise sum through a double-width accumulator t;
\* the carry out of limb 4 is dropped.
add_assign(s, rhs) ==
    LET t0 == s[1] + rhs[1]
        t1 == (t0 \div Base) + s[2] + rhs[2]
        t2 == (t1 \div Base) + s[3] + rhs[3]
        t3 == (t2 \div Base) + s[4] + rhs[4]
        t4 == (t3 \div Base) + s[5] + rhs[5]
    IN  new(t4 % Base, t3 % Base, t2 % Base, t1 % Base, t0 % Base)

\* Variant of sub_assign that forgets the borrow between limbs.
sub_assignNoBorrow(s, rhs) ==
    new((s[5] - rhs[5]) % Base, (s[4] - rhs[4]) % Base, (s[3] - rhs[3]) % Base,
        (s[2] - rhs[2]) % Base, (s[1] - rhs[1]) % Base)

\* SubAssign<&I320>: wrapping_sub in the double width, the borrow is bit
\* 64 of the wrapped difference; the borrow out of limb 4 is dropped.
sub_assign(s, rhs) ==
    LET t0 == (s[1] - rhs[1]) % Wide
        b0 == (t0 \div Base) % 2
        t1 == (s[2] - (b0 + rhs[2])) % Wide
        b1 == (t1 \div Base) % 2
        t2 == (s[3] - (b1 + rhs[3])) % Wide
        b2 == (t2 \div Base) % 2
        t3 == (s[4] - (b2 + rhs[4])) % Wide
        b3 == (t3 \div Base) % 2
        t4 == (s[5] - (b3 + rhs[5])) % Wide
    IN  new(t4 % Base, t3 % Base, t2 % Base, t1 % Base, t0 % Base)

\* Ord::cmp: limb 4 first (raw comparison, flipped when the top bits
\* differ), then limbs 3 down to 0 as raw unsigned patterns.
RECURSIVE cmpLow(_, _, _)
cmpLow(s, other, i) ==
    IF i = 0 THEN "Equal"
    ELSE IF s[i] > other[i] THEN "Greater"
    ELSE IF s[i] < other[i] THEN "Less"
    ELSE cmpLow(s, other, i - 1)

sameSign(s, other) == (s[NumLimbs] \div TopBit) = (other[NumLimbs] \div TopBit)

\* Variant of cmp that compares all five limbs as raw unsigned patterns.
cmpUnsigned(s, other) == cmpLow(s, other, NumLimbs)

cmp(s, other) ==
    IF s[NumLimbs] > other[NumLimbs]
    THEN (IF sameSign(s, other) THEN "Greater" ELSE "Less")
    ELSE IF s[NumLimbs] < other[NumLimbs]
    THEN (IF sameSign(s, other) THEN "Less" ELSE "Greater")
    ELSE cmpLow(s, other, NumLimbs - 1)

\* Variant of `<` that never holds (the swap is never taken).
ltNever(s, other) == FALSE

\* PartialOrd: `*self < b`
lt(s, other) == cmp(s, other) = "Less"


\* ------------------------------------------- reading a value as an integer
\* The unsigned value of the five limbs and its two's-complement reading.
RECURSIVE unsignedUpTo(_, _)
unsignedUpTo(s, i) == IF i = 0 THEN 0 ELSE s[i] * Pow2(LimbBits * (i - 1)) + unsignedUpTo(s, i - 1)

unsigned(s) == unsignedUpTo(s, NumLimbs)

signed(s) == IF s[NumLimbs] >= TopBit THEN unsigned(s) - Pow2(TotalBits) ELSE unsigned(s)

InRange(v) == -Pow2(TotalBits - 1) <= v /\ v < Pow2(TotalBits - 1)

\* The value with limbs taken from the non-negative integer n.
fromNat(n) == [i \in 1 .. NumLimbs |-> (n \div Pow2(LimbBits * (i - 1))) % Base]

zero == new(0, 0, 0, 0, 0)
one == new(0, 0, 0, 0, 1)

RECURSIVE gcd(_, _)
gcd(u, v) == IF v = 0 THEN u ELSE gcd(v, u % v)

\* (u * v) mod n for u >= 0, by doubling, so that no product leaves the
\* range of the model checker's integers.
RECURSIVE mulMod(_, _, _)
mulMod(u, v, n) == IF u = 0 THEN 0 ELSE (2 * mulMod(u \div 2, v, n) + (u % 2) * (v % n)) % n

\* ------------------------------------------------------------------ state
VARIABLES
    pc,      \* position of the caller / of modinv's loop
    self,    \* the receiver `self` of modinv (the remainder a)
    b,       \* local b
    x,       \* local x
    y,       \* local y
    m,       \* the modulus argument
    a0,      \* the value the caller passed to the first modinv call
    call,    \* 1 during the first modinv call, 2 during the second
    iter,    \* iterations of `while !self.is_zero()` in the current call
    p,       \* left operand of the operator under test
    q,       \* right operand of the operator under test
    acc,     \* value the operator under test has produced so far
    op,      \* which operators have been applied to acc
    k        \* number of div2 applications to acc

vars == <<pc, self, b, x, y, m, a0, call, iter, p, q, acc, op, k>>
modinvVars == <<pc, self, b, x, y, m, a0, call, iter>>
opVars == <<p, q, acc, op, k>>

\* The iteration counter stops counting at IterCap (the loop itself goes on).
IterCap == 2 * TotalBits + 1

\* --------------------------------------------------------------- inputs
\* Moduli: every odd number up to MaxMod, and odd numbers that need all of
\* the low four limbs (the largest two, and the smallest).
BigMods == {Pow2(4 * LimbBits) - 1, Pow2(4 * LimbBits) - 3, Pow2(4 * LimbBits - 1) + 1}
Moduli == {n \in 1 .. MaxMod : n % 2 = 1} \cup BigMods

\* Values to invert for modulus n: all of [0, n) for the small moduli, the
\* ones next to 0, next to n and next to n/2 for the big ones.
Inputs(n) == IF n <= MaxMod THEN 0 .. (n - 1)
             ELSE (0 .. NearTop) \cup ((n - 1 - NearTop) .. (n - 1))
                   \cup ((n \div 2 - NearTop) .. (n \div 2))

opIdle == /\ p = zero /\ q = zero /\ acc = zero /\ op = "none" /\ k = 0

modinvIdle ==
    /\ pc = "idle" /\ self = zero /\ b = zero /\ x = zero /\ y = zero
    /\ m = zero /\ a0 = zero /\ call = 0 /\ iter = 0

\* ----------------------------------------------------- the modinv machine
Init ==
    /\ m \in {fromNat(n) : n \in Moduli}
    /\ self \in {fromNat(a) : a \in Inputs(unsigned(m))}
    /\ a0 = self
    /\ pc = "entry"
    /\ b = zero /\ x = zero /\ y = zero
    /\ call = 1
    /\ iter = 0
    /\ opIdle

\* lines 48-50: let mut b = *m; x = 1; y = 0
Entry ==
    /\ pc = "entry"
    /\ b' = m
    /\ x' = one
    /\ y' = zero
    /\ pc' = "loop"
    /\ UNCHANGED <<self, m, a0, call, iter, opVars>>

\* line 52 false, line 67: the loop ends, *self = y
LoopExit ==
    /\ pc = "loop"
    /\ is_zero(self)
    /\ self' = y
    /\ pc' = "done"
    /\ UNCHANGED <<b, x, y, m, a0, call, iter, opVars>>

\* lines 53-54: self is even: self.div2(), then x.div2_mod(m)
EvenHalve ==
    /\ pc = "loop"
    /\ ~is_zero(self)
    /\ is_even(self)
    /\ self' = div2(self)
    /\ iter' = IF iter < IterCap THEN iter + 1 ELSE iter
    /\ pc' = "div2_mod"
    /\ UNCHANGED <<b, x, y, m, a0, call, opVars>>

\* lines 57-60: self is odd: swap (self, b) and (x, y) when self < b
OddSwap ==
    /\ pc = "loop"
    /\ ~is_zero(self)
    /\ ~is_even(self)
    /\ IF lt(self, b)
       THEN self' = b /\ b' = self /\ x' = y /\ y' = x
       ELSE UNCHANGED <<self, b, x, y>>
    /\ iter' = IF iter < IterCap THEN iter + 1 ELSE iter
    /\ pc' = "sub_self"
    /\ UNCHANGED <<m, a0, call, opVars>>

\* line 61: *self -= b
SubSelf ==
    /\ pc = "sub_self"
    /\ self' = sub_assign(self, b)
    /\ pc' = "halve_self"
    /\ UNCHANGED <<b, x, y, m, a0, call, iter, opVars>>

\* line 62: self.div2()
HalveSelf ==
    /\ pc = "halve_self"
    /\ self' = div2(self)
    /\ pc' = "sub_x"
    /\ UNCHANGED <<b, x, y, m, a0, call, iter, opVars>>

\* line 63: x -= y
SubX ==
    /\ pc = "sub_x"
    /\ x' = sub_assign(x, y)
    /\ pc' = "div2_mod"
    /\ UNCHANGED <<self, b, y, m, a0, call, iter, opVars>>

\* lines 55 and 64, div2_mod lines 41-43: if !self.is_even() { self.add_assign(m) }
Div2ModAdd ==
    /\ pc = "div2_mod"
    /\ x' = IF ~is_even(x) THEN add_assign(x, m) ELSE x
    /\ pc' = "div2_mod_halve"
    /\ UNCHANGED <<self, b, y, m, a0, call, iter, opVars>>

\* div2_mod line 44: self.div2(), back to the loop test
Div2ModHalve ==
    /\ pc = "div2_mod_halve"
    /\ x' = div2(x)
    /\ pc' = "loop"
    /\ UNCHANGED <<self, b, y, m, a0, call, iter, opVars>>

\* The caller applies modinv(&m) to the value the first call left in the
\* receiver.
CallAgain ==
    /\ pc = "done"
    /\ call = 1
    /\ call' = 2
    /\ iter' = 0
    /\ pc' = "entry"
    /\ UNCHANGED <<self, b, x, y, m, a0, opVars>>

Next ==
    \/ Entry
    \/ LoopExit
    \/ EvenHalve
    \/ OddSwap
    \/ SubSelf
    \/ HalveSelf
    \/ SubX
    \/ Div2ModAdd
    \/ Div2ModHalve
    \/ CallAgain

Spec == Init /\ [][Next]_vars

\* The loop is sequential code: a step that can be taken is taken.
FairSpec == Spec /\ WF_vars(Next)


\* --------------------------------------------- the operators on their own
\* Limb patterns that exercise the sign bit, the carries and the borrows.
SignLimbs == {0, 1, TopBit - 1, TopBit, LimbMax}
EdgeLimbs == {0, 1, LimbMax}
EndLimbs == {0, LimbMax}

CmpSamples == {new(d4, d3, d2, d1, d0) :
    d4 \in SignLimbs, d3 \in EdgeLimbs, d2 \in EndLimbs, d1 \in EndLimbs, d0 \in EdgeLimbs}

ArithSamples == {new(d4, d3, d2, d1, d0) :
    d4 \in {0, TopBit, LimbMax}, d3 \in EdgeLimbs, d2 \in EndLimbs, d1 \in EdgeLimbs,
    d0 \in EdgeLimbs}

Div2Samples == {new(d4, d3, d2, d1, d0) :
    d4 \in SignLimbs, d3 \in {0, 1, TopBit, LimbMax}, d2 \in {0, 1, TopBit, LimbMax},
    d1 \in {0, 1, TopBit, LimbMax}, d0 \in {0, 1, TopBit, LimbMax}}

\* Ord::cmp applied to a pair of values.
InitCmp ==
    /\ modinvIdle
    /\ p \in CmpSamples
    /\ q \in CmpSamples
    /\ acc = zero /\ op = "none" /\ k = 0

Compare ==
    /\ op = "none"
    /\ op' = cmp(p, q)
    /\ UNCHANGED <<modinvVars, p, q, acc, k>>

NextCmp == Compare

SpecCmp == InitCmp /\ [][NextCmp]_vars

\* add_assign and sub_assign applied one after the other to acc = p, with
\* the same right-hand operand q.
InitArith ==
    /\ modinvIdle
    /\ p \in ArithSamples
    /\ q \in ArithSamples
    /\ acc = p /\ op = "none" /\ k = 0

Add ==
    /\ op \in {"none", "sub"}
    /\ acc' = add_assign(acc, q)
    /\ op' = IF op = "none" THEN "add" ELSE "sub_add"
    /\ UNCHANGED <<modinvVars, p, q, k>>

Sub ==
    /\ op \in {"none", "add"}
    /\ acc' = sub_assign(acc, q)
    /\ op' = IF op = "none" THEN "sub" ELSE "add_sub"
    /\ UNCHANGED <<modinvVars, p, q, k>>

NextArith == Add \/ Sub

SpecArith == InitArith /\ [][NextArith]_vars

\* div2 applied k times to acc = p.
InitDiv2 ==
    /\ modinvIdle
    /\ p \in Div2Samples
    /\ q = zero
    /\ acc = p /\ op = "none" /\ k = 0

Halve ==
    /\ k < TotalBits
    /\ acc' = div2(acc)
    /\ k' = k + 1
    /\ UNCHANGED <<modinvVars, p, q, op>>

NextDiv2 == Halve

SpecDiv2 == InitDiv2 /\ [][NextDiv2]_vars

\* ----------------------------------------------------------------- claims
coprimeInput == unsigned(a0) < unsigned(m) /\ gcd(unsigned(a0), unsigned(m)) = 1
firstDone == pc = "done" /\ call = 1
inLoop == pc \in {"loop", "sub_self", "halve_self", "sub_x", "div2_mod", "div2_mod_halve"}

\* C1: for a positive odd modulus m and 0 < a < m coprime to m, the value r
\* that modinv leaves in the receiver, read as a signed integer, satisfies
\* (a * r) mod m = 1.
C1_InverseCongruence ==
    (firstDone /\ unsigned(a0) > 0 /\ coprimeInput)
        => mulMod(unsigned(a0), signed(self), unsigned(m)) = 1

C1_Witness ==
    /\ firstDone /\ coprimeInput
    /\ unsigned(a0) > 1
    /\ unsigned(m) \in BigMods
    /\ signed(self) > Pow2(3 * LimbBits)

\* C2: the value modinv leaves in the receiver is the representative of the
\* inverse in [0, m): read as a signed integer, 0 <= result < m.
C2_ResultInRange ==
    (firstDone /\ unsigned(a0) > 0 /\ coprimeInput)
        => (0 <= signed(self) /\ signed(self) < unsigned(m))

\* C3: for a in [0, m) coprime to m, modinv applied twice leaves the
\* receiver equal to a.
C3_RoundTrip ==
    (pc = "done" /\ call = 2 /\ coprimeInput) => self = a0

\* C7: for 0 <= a < m the loop of modinv ends, after at most 2 * TotalBits
\* iterations.
C7_Termination ==
    /\ [](call = 1 => iter <= 2 * TotalBits)
    /\ <>(firstDone)

C7_Witness == firstDone /\ iter > 4 * LimbBits

\* C8: for 0 <= a < m no subtraction or addition that modinv and div2_mod
\* perform wraps: self - b, x - y and x + m are within [-2^319, 2^319) when
\* they are about to be computed.
C8_NoWrap ==
    call = 1 =>
        /\ pc = "sub_self" => InRange(signed(self) - signed(b))
        /\ pc = "sub_x" => InRange(signed(x) - signed(y))
        /\ (pc = "div2_mod" /\ ~is_even(x)) => InRange(signed(x) + signed(m))
        /\ inLoop => (InRange(signed(x)) /\ InRange(signed(y)))

C8_Witness ==
    /\ call = 1 /\ pc = "div2_mod" /\ ~is_even(x)
    /\ signed(x) + signed(m) >= Pow2(4 * LimbBits)

\* C9: for 0 <= a < m, in every loop state b is odd and positive and self is
\* non-negative; when `*self -= b` is about to run, self >= b and both are
\* odd; the difference is non-negative and even.
C9_LoopInvariant ==
    call = 1 =>
        /\ inLoop => (~is_even(b) /\ signed(b) > 0 /\ signed(self) >= 0)
        /\ pc = "sub_self" =>
              (signed(self) >= signed(b) /\ ~is_even(self) /\ ~is_even(b))
        /\ pc = "halve_self" => (signed(self) >= 0 /\ is_even(self))

C9_Witness ==
    /\ call = 1 /\ pc = "sub_self"
    /\ b # m
    /\ signed(self) > signed(b)

\* C4: cmp agrees with the comparison of the two's-complement signed values,
\* and Equal coincides with limb-wise equality.
C4_SignedOrder ==
    op # "none" =>
        /\ op = "Less" <=> signed(p) < signed(q)
        /\ op = "Equal" <=> signed(p) = signed(q)
        /\ op = "Greater" <=> signed(p) > signed(q)
        /\ op = "Equal" <=> p = q

C4_Witness ==
    /\ op = "Less"
    /\ p[NumLimbs] > q[NumLimbs]
    /\ signed(p) < 0 /\ signed(q) >= 0

\* C5: (p + q) - q = p and (p - q) + q = p limb for limb, also when a carry
\* or borrow crosses a limb boundary or the result wraps past 320 bits.
C5_AddSubInverse ==
    /\ op = "add_sub" => acc = p
    /\ op = "sub_add" => acc = p

C5_Witness ==
    /\ op = "add_sub"
    /\ p[1] + q[1] >= Base
    /\ unsigned(p) + unsigned(q) >= Pow2(TotalBits)

\* C6: when v is divisible by 2^k, k applications of div2 give exactly
\* v / 2^k (v read as a signed integer).
C6_HalvingExact ==
    (signed(p) % Pow2(k) = 0) => signed(acc) = signed(p) \div Pow2(k)

C6_Witness ==
    /\ k = LimbBits + 1
    /\ signed(p) % Pow2(k) = 0
    /\ signed(p) < 0
    /\ acc[1] >= TopBit

\* C10 as claimed: after div2 the top bit of limb 4 is 0 for every input.
C10_TopBitCleared == k >= 1 => acc[NumLimbs] < TopBit

\* C10 amended: div2 is an arithmetic shift: the top bit of limb 4 after
\* div2 is the top bit of limb 4 before it.
C10_TopBitKept ==
    k >= 1 => ((acc[NumLimbs] >= TopBit) <=> (p[NumLimbs] >= TopBit))

C10_Witness == k = 1 /\ p[NumLimbs] >= TopBit /\ acc[NumLimbs] >= TopBit

====
